---------------------------- MODULE Spec2Model ----------------------------
(***************************************************************************)
(* A model of ml_lib/lstm_net.py: the class LSTM_Net (constructor,         *)
(* forward, init_hidden) as a state machine over one model object.        *)
(*                                                                         *)
(* Tensors are nested sequences of integers with a dtype; the layers of    *)
(* the tensor library (nn.Linear, nn.LSTM, nn.ReLU, nn.Dropout, torch.cat) *)
(* are integer stand-ins that keep the library's shape and dtype checks    *)
(* and the dependence of every result on its inputs.  A parameter tensor   *)
(* is filled with one integer.                                             *)
(***************************************************************************)
EXTENDS Integers, Sequences, FiniteSets, TLC

VARIABLES
    pc,      \* "new" | "ready" (constructor returned) | "failed" (it raised)
    cfg,     \* the constructor's arguments
    model,   \* the LSTM_Net object: its attributes and registered sub-modules
    call,    \* the last operation of the caller, its arguments and its outcome
             \* (prior: whether an earlier forward call had stored a hidden value)
    heap,    \* tensor storages the caller holds: storage id -> contents
    held,    \* the hidden-state pairs the caller got from init_hidden
    written  \* the held tensors the caller wrote into: <<pair, slot>>

vars == <<pc, cfg, model, call, heap, held, written>>

----------------------------------------------------------------------------
(* Bounds of the model.                                                    *)

MaxFc == 2        \* dense layers in fc
MaxLayers == 2    \* n_layers of the recurrent stack
MaxBatch == 2     \* batch size B of an init_hidden call
MaxHeld == 2      \* hidden-state pairs the caller keeps

Widths == {1, 2}              \* valid layer widths
BadWidths == {-1, 0}          \* non-positive widths
Dropouts == {0, 50}           \* dropout probability, in percent
OutActvs == {"None", "relu"}  \* out_actv: None, or an activation
Lens == {1, 2}                \* sequence length L
Batches == {1, 2}             \* batch size B of a forward call
XVals == {-1, 1}              \* the value an input tensor is filled with
DTypes == {"float64"}         \* numpy's default, as in the module's own test
Seeds == {-1, 1}              \* the value the initialisation fills a parameter with

----------------------------------------------------------------------------
(* Python values.                                                          *)

\* An optional integer: <<>> is None, <<n>> is n.
NoneVal == <<>>
Some(n) == <<n>>

\* Python truthiness of an optional integer: None and 0 are false.
Truthy(o) == o # NoneVal /\ o[1] # 0

\* Truthiness of the out_actv argument: None is false, a callable is true.
TruthyActv(a) == a # "None"

RECURSIVE SeqSum(_)
SeqSum(s) == IF s = <<>> THEN 0 ELSE Head(s) + SeqSum(Tail(s))

Sgn(v) == IF v > 0 THEN 1 ELSE IF v < 0 THEN -1 ELSE 0

Fill(n, v) == [i \in 1..n |-> v]

----------------------------------------------------------------------------
(* Tensors: [dtype, data], data a nested sequence.                         *)

Tensor(dt, d) == [dtype |-> dt, data |-> d]

Size0(t) == Len(t.data)
Size1(t) == IF Len(t.data) = 0 THEN 0 ELSE Len(t.data[1])
Size2(t) == IF Size1(t) = 0 THEN 0 ELSE Len(t.data[1][1])

\* Tensor.float()
Float(t) == [t EXCEPT !.dtype = "float32"]

Zeros3(dt, a, b, c) == Tensor(dt, Fill(a, Fill(b, Fill(c, 0))))

IsZero3(t) ==
    \A i \in 1..Size0(t) : \A j \in 1..Size1(t) : \A k \in 1..Size2(t) :
        t.data[i][j][k] = 0

----------------------------------------------------------------------------
(* The tensor library's layer constructors.  torch.empty raises on a       *)
(* negative dimension.  A layer with a zero fan-in (nn.Linear with         *)
(* in_features = 0, nn.LSTM with hidden_size = 0) raises in the library    *)
(* versions that divide by it or validate it, and is built empty in the    *)
(* others: strict tells which.                                             *)

DefaultDType == "float32"

LinearNew(inf, outf, seed, strict) ==
    [ok     |-> inf >= 0 /\ outf >= 0 /\ (strict => inf > 0),
     layer  |-> [kind |-> "Linear", in_features |-> inf, out_features |-> outf,
                 weight |-> seed, bias |-> seed, dtype |-> DefaultDType]]

LSTMNew(inf, hid, n, p, seed, strict) ==
    [ok     |-> inf >= 0 /\ hid >= 0 /\ (strict => hid > 0),
     layer  |-> [kind |-> "LSTM", input_size |-> inf, hidden_size |-> hid,
                 num_layers |-> n, dropout |-> p,
                 weight |-> seed, bias |-> seed, dtype |-> DefaultDType]]

----------------------------------------------------------------------------
(* LSTM_Net.__init__                                                       *)

\* self.dropout = nn.Dropout(dropout): built from the argument as passed.
\* (Variant: built after the zeroing of the next line.)
HeadDropoutZeroed(c) ==
    [kind |-> "Dropout", p |-> IF c.n_layers = 1 THEN 0 ELSE c.dropout]
HeadDropout(c) == [kind |-> "Dropout", p |-> c.dropout]

\* if n_layers == 1: dropout = 0; the value then given to nn.LSTM.
LstmDropout(c) == IF c.n_layers = 1 THEN 0 ELSE c.dropout

\* prev_out = hidden_dim + (non_seq_dim if non_seq_dim else 0)
\* (Variant: the auxiliary width left out.)
FusedWidthNoAux(c) == c.hidden_dim
FusedWidth(c) ==
    c.hidden_dim + (IF Truthy(c.non_seq_dim) THEN c.non_seq_dim[1] ELSE 0)

\* The loop over fc: one nn.Linear(prev_out, neurons) per entry, in order,
\* prev_out following.  Stops at the first layer whose construction raises.
\* (Variant: prev_out not updated after a layer.)
RECURSIVE BuildFcStalePrev(_, _, _, _)
BuildFcStalePrev(fc, prev_out, seed, strict) ==
    IF fc = <<>> THEN [ok |-> TRUE, layers |-> <<>>, prev_out |-> prev_out]
    ELSE LET l    == LinearNew(prev_out, Head(fc), seed, strict)
             rest == BuildFcStalePrev(Tail(fc), prev_out, seed, strict)
         IN  IF ~l.ok THEN [ok |-> FALSE, layers |-> <<>>, prev_out |-> prev_out]
             ELSE [rest EXCEPT !.layers = <<l.layer>> \o @]

RECURSIVE BuildFc(_, _, _, _)
BuildFc(fc, prev_out, seed, strict) ==
    IF fc = <<>> THEN [ok |-> TRUE, layers |-> <<>>, prev_out |-> prev_out]
    ELSE LET l    == LinearNew(prev_out, Head(fc), seed, strict)
             rest == BuildFc(Tail(fc), Head(fc), seed, strict)
         IN  IF ~l.ok THEN [ok |-> FALSE, layers |-> <<>>, prev_out |-> prev_out]
             ELSE [rest EXCEPT !.layers = <<l.layer>> \o @]

\* The attributes __init__ assigns, in order, and the Python type of the
\* value each gets.  nn.Module.__setattr__ registers a value as a sub-module
\* only when it is an nn.Module; self.fc is a plain Python list.
AttrOrder ==
    <<"n_layers", "hidden_dim", "dropout", "actv", "out_actv", "lstm", "fc", "out">>

AttrType(name) ==
    CASE name \in {"dropout", "actv", "lstm", "out"} -> "Module"
      [] name = "fc" -> "list"
      [] name = "out_actv" -> "callable"
      [] OTHER -> "int"

IsModuleAttr(name) == AttrType(name) = "Module"

\* self._modules: the registered sub-modules, in registration order.
RegisteredModules == SelectSeq(AttrOrder, IsModuleAttr)

NoModel == [exists |-> FALSE]

\* nn.Module.float(): casts the parameters of the registered sub-modules.
FloatLayer(l) == [l EXCEPT !.dtype = "float32"]
ModuleFloat(m) ==
    LET reg == {m.modules[i] : i \in DOMAIN m.modules}
    IN  [m EXCEPT
           !.lstm = IF "lstm" \in reg THEN FloatLayer(@) ELSE @,
           !.out  = IF "out" \in reg THEN FloatLayer(@) ELSE @,
           !.fc   = IF "fc" \in reg THEN [i \in DOMAIN @ |-> FloatLayer(@[i])] ELSE @]

\* The whole constructor: [ok, model]; ok = FALSE when a statement raised.
Construct(c, strict) ==
    LET lstm == LSTMNew(c.input_dim, c.hidden_dim, c.n_layers, LstmDropout(c),
                        c.seed, strict)
        fcs  == BuildFc(c.fc, FusedWidth(c), c.seed, strict)
        out  == LinearNew(fcs.prev_out, c.output_dim, c.seed, strict)
    IN  IF ~lstm.ok \/ ~fcs.ok \/ ~out.ok
        THEN [ok |-> FALSE, model |-> NoModel]
        ELSE [ok |-> TRUE,
              model |-> ModuleFloat(
                 [n_layers   |-> c.n_layers,
                  hidden_dim |-> c.hidden_dim,
                  dropout    |-> HeadDropout(c),
                  actv       |-> [kind |-> "ReLU"],
                  out_actv   |-> c.out_actv,
                  lstm       |-> lstm.layer,
                  fc         |-> fcs.layers,
                  out        |-> out.layer,
                  hidden     |-> <<>>,
                  training   |-> TRUE,
                  modules    |-> RegisteredModules])]

\* Module.parameters(): the parameters of the registered sub-modules, each
\* named <<attribute, index, kind>>.
ParamsOfAttr(m, name) ==
    CASE name = "lstm" ->
           {<<"lstm", k, w>> : k \in 1..m.lstm.num_layers, w \in {"weight", "bias"}}
      [] name = "out" -> {<<"out", 0, w>> : w \in {"weight", "bias"}}
      [] name = "fc" -> {<<"fc", i, w>> : i \in DOMAIN m.fc, w \in {"weight", "bias"}}
      [] OTHER -> {}

Parameters(m) ==
    UNION {ParamsOfAttr(m, m.modules[i]) : i \in DOMAIN m.modules}

----------------------------------------------------------------------------
(* The tensor library's forward operations.  Each returns [ok, err, t]:    *)
(* ok = FALSE with the kind of error when the library raises.              *)

NoTensor == Tensor("none", <<>>)
Ok(t) == [ok |-> TRUE, err |-> "", t |-> t]
Raise(e) == [ok |-> FALSE, err |-> e, t |-> NoTensor]

\* nn.Linear: y = x W^T + b, W filled with weight, b with bias.
LinearApply(l, t) ==
    IF t.dtype # l.dtype THEN Raise("dtype")
    ELSE IF Size1(t) # l.in_features THEN Raise("shape")
    ELSE Ok(Tensor(t.dtype,
            [b \in 1..Size0(t) |->
                Fill(l.out_features, l.weight * SeqSum(t.data[b]) + l.bias)]))

\* nn.ReLU
ReLU(t) ==
    [t EXCEPT !.data = [b \in 1..Size0(t) |->
        [j \in 1..Size1(t) |-> IF t.data[b][j] > 0 THEN t.data[b][j] ELSE 0]]]

\* The terminal activation a caller may pass as out_actv.
ActvApply(a, t) == IF a = "relu" THEN ReLU(t) ELSE t

\* nn.Dropout on one value: the identity in inference mode or with p = 0; in
\* training mode the random mask either zeroes the value (drop) or keeps it
\* scaled by 1 / (1 - p).
DropValue(p, training, drop, v) ==
    IF training /\ p > 0
    THEN (IF drop THEN 0 ELSE (v * 100) \div (100 - p))
    ELSE v

DropoutApply(d, training, drop, t) ==
    [t EXCEPT !.data = [b \in 1..Size0(t) |->
        [j \in 1..Size1(t) |-> DropValue(d.p, training, drop, t.data[b][j])]]]

\* torch.cat((a, b), dim=1)
Cat1(a, b) ==
    IF Size0(a) # Size0(b) THEN Raise("shape")
    ELSE IF a.dtype # b.dtype THEN Raise("dtype")
    ELSE Ok(Tensor(a.dtype, [i \in 1..Size0(a) |-> a.data[i] \o b.data[i]]))

\* One recurrent layer over the inputs of one sequence: the cell state moves
\* by a bounded step that depends on the input and on the previous output,
\* and the output is a bounded function of the cell state.
RECURSIVE CellRun(_, _, _, _, _)
CellRun(in, h, c, w, bias) ==
    IF in = <<>> THEN [hs |-> <<>>, h |-> h, c |-> c]
    ELSE LET g    == Sgn(w * Head(in) + h + bias)
             c1   == c + g
             h1   == Sgn(c1)
             rest == CellRun(Tail(in), h1, c1, w, bias)
         IN  [rest EXCEPT !.hs = <<h1>> \o @]

\* The stacked layers k..num_layers over one sequence; layer k+1 reads the
\* outputs of layer k (hidden_size values each) through the inter-layer
\* dropout.  h0 and c0 hold one value per layer.
RECURSIVE StackRun(_, _, _, _, _, _, _)
StackRun(l, k, in, h0, c0, training, drop) ==
    LET r == CellRun(in, h0[k], c0[k], l.weight, l.bias)
    IN  IF k = l.num_layers
        THEN [hs |-> r.hs, hn |-> <<r.h>>, cn |-> <<r.c>>]
        ELSE LET nxt  == [t \in 1..Len(r.hs) |->
                            l.hidden_size
                              * DropValue(l.dropout, training, drop, r.hs[t])]
                 rest == StackRun(l, k + 1, nxt, h0, c0, training, drop)
             IN  [rest EXCEPT !.hn = <<r.h>> \o @, !.cn = <<r.c>> \o @]

\* nn.LSTM(batch_first=True) on x (B, L, input_size) from the state (h0, c0),
\* each (num_layers, B, hidden_size): [ok, err, out, hn, cn].
LSTMApply(l, x, h0, c0, training, drop) ==
    LET B == Size0(x)
        shape0 == <<l.num_layers, B, l.hidden_size>>
        runs == [b \in 1..B |->
                   StackRun(l, 1,
                     [t \in 1..Size1(x) |-> SeqSum(x.data[b][t])],
                     [k \in 1..l.num_layers |-> h0.data[k][b][1]],
                     [k \in 1..l.num_layers |-> c0.data[k][b][1]],
                     training, drop)]
    IN  IF x.dtype # l.dtype \/ h0.dtype # l.dtype \/ c0.dtype # l.dtype
        THEN [ok |-> FALSE, err |-> "dtype", out |-> NoTensor, hn |-> NoTensor,
              cn |-> NoTensor]
        ELSE IF \/ Size2(x) # l.input_size
                \/ <<Size0(h0), Size1(h0), Size2(h0)>> # shape0
                \/ <<Size0(c0), Size1(c0), Size2(c0)>> # shape0
        THEN [ok |-> FALSE, err |-> "shape", out |-> NoTensor, hn |-> NoTensor,
              cn |-> NoTensor]
        ELSE [ok  |-> TRUE, err |-> "",
              out |-> Tensor(l.dtype,
                        [b \in 1..B |-> [t \in 1..Size1(x) |->
                            Fill(l.hidden_size, runs[b].hs[t])]]),
              hn  |-> Tensor(l.dtype,
                        [k \in 1..l.num_layers |-> [b \in 1..B |->
                            Fill(l.hidden_size, runs[b].hn[k])]]),
              cn  |-> Tensor(l.dtype,
                        [k \in 1..l.num_layers |-> [b \in 1..B |->
                            Fill(l.hidden_size, runs[b].cn[k])]])]

----------------------------------------------------------------------------
(* LSTM_Net.init_hidden                                                    *)

\* next(self.parameters()): the first parameter in registration order; its
\* owner's dtype is the dtype weight.new(...) allocates with.
FirstParamOwner(m) ==
    LET owners == SelectSeq(m.modules, LAMBDA n : ParamsOfAttr(m, n) # {})
    IN  owners[1]

\* Two weight.new(n_layers, batch_size, hidden_dim).zero_() tensors, each in
\* a storage of its own: [h, c] are the storage ids, heap the heap after.
\* (Variant: one tensor returned twice.)
InitHiddenShared(m, batch_size, hp) ==
    LET z == Zeros3(m[FirstParamOwner(m)].dtype, m.n_layers, batch_size,
                    m.hidden_dim)
    IN  [h |-> Len(hp) + 1, c |-> Len(hp) + 1, heap |-> hp \o <<z>>]
InitHidden(m, batch_size, hp) ==
    LET z == Zeros3(m[FirstParamOwner(m)].dtype, m.n_layers, batch_size,
                    m.hidden_dim)
    IN  [h |-> Len(hp) + 1, c |-> Len(hp) + 2, heap |-> hp \o <<z, z>>]

----------------------------------------------------------------------------
(* LSTM_Net.forward                                                        *)

\* The state the recurrent layer starts from: self.init_hidden(batch_size).
\* (Variant: the state a previous call stored, when there is one.)
InitialStateCarried(m, batch_size, hp) ==
    IF m.hidden # <<>> THEN m.hidden
    ELSE LET ih == InitHidden(m, batch_size, hp)
         IN  <<ih.heap[ih.h], ih.heap[ih.c]>>
InitialState(m, batch_size, hp) ==
    LET ih == InitHidden(m, batch_size, hp)
    IN  <<ih.heap[ih.h], ih.heap[ih.c]>>

\* lstm_out, self.hidden = self.lstm(...): the model after the assignment.
\* (Variant: the call also switches the model to inference mode.)
ModelAfterForwardEval(m, hn) == [m EXCEPT !.hidden = hn, !.training = FALSE]
ModelAfterForward(m, hn) == [m EXCEPT !.hidden = hn]

\* lstm_out[:, -1, :]
LastStep(t) == Tensor(t.dtype, [b \in 1..Size0(t) |-> t.data[b][Size1(t)]])

\* for l in self.fc: linear, activation, dropout.  [ok, err, at, t]; at is
\* the index of the dense layer that raised.
RECURSIVE DenseStack(_, _, _, _, _)
DenseStack(m, i, dense, training, drop) ==
    IF i > Len(m.fc) THEN [ok |-> TRUE, err |-> "", at |-> 0, t |-> dense]
    ELSE LET r == LinearApply(m.fc[i], dense)
         IN  IF ~r.ok THEN [ok |-> FALSE, err |-> r.err, at |-> i, t |-> NoTensor]
             ELSE DenseStack(m, i + 1,
                     DropoutApply(m.dropout, training, drop, ReLU(r.t)),
                     training, drop)

Returned(t, m) ==
    [status |-> "ok", err |-> "", at |-> <<"", 0>>, out |-> t, model |-> m]
Raised(e, where, m) ==
    [status |-> "raised", err |-> e, at |-> where, out |-> NoTensor, model |-> m]

\* forward(x, non_seq): non_seq is <<>> (None) or <<tensor>>.  drop is the
\* outcome of this call's random dropout masks.
Forward(m, x, non_seq, drop, hp) ==
    LET x1 == Float(x)
        batch_size == Size0(x1)
        st == InitialState(m, batch_size, hp)
        r  == LSTMApply(m.lstm, x1, st[1], st[2], m.training, drop)
    IN  IF ~r.ok THEN Raised(r.err, <<"lstm", 0>>, m)
        ELSE
        LET m1 == ModelAfterForward(m, <<r.hn, r.cn>>)
            lstm_out == LastStep(r.out)
            fused == IF non_seq = <<>> THEN Ok(lstm_out)
                     ELSE Cat1(lstm_out, Float(non_seq[1]))
        IN  IF ~fused.ok THEN Raised(fused.err, <<"cat", 0>>, m1)
            ELSE
            LET d == DenseStack(m1, 1, fused.t, m1.training, drop)
            IN  IF ~d.ok THEN Raised(d.err, <<"fc", d.at>>, m1)
                ELSE
                LET o == LinearApply(m1.out, d.t)
                IN  IF ~o.ok THEN Raised(o.err, <<"out", 0>>, m1)
                    ELSE IF TruthyActv(m1.out_actv)
                    THEN \* self.out_atcv: an attribute __init__ never set
                         IF "out_atcv" \in DOMAIN m1
                         THEN Returned(ActvApply(m1["out_atcv"], o.t), m1)
                         ELSE Raised("AttributeError", <<"out_atcv", 0>>, m1)
                    ELSE Returned(o.t, m1)

----------------------------------------------------------------------------
(* The caller: configurations and inputs.                                  *)

SeqsUpTo(S, n) == UNION {[1..k -> S] : k \in 0..n}

ConfigsOver(W, Fcs, Acts, Sds) ==
    [fc : Fcs, input_dim : W, output_dim : W, hidden_dim : W,
     n_layers : 1..MaxLayers,
     non_seq_dim : {NoneVal} \cup {Some(w) : w \in W},
     dropout : Dropouts, out_actv : Acts, seed : Sds]

\* Valid configurations: every width positive.
ValidConfigs == ConfigsOver(Widths, SeqsUpTo(Widths, MaxFc), OutActvs, Seeds)

\* Any configuration, non-positive widths included.
AnyConfigs ==
    ConfigsOver(Widths \cup BadWidths, SeqsUpTo(Widths \cup BadWidths, MaxFc),
                {"None"}, {1})

\* The configuration of the module's own test, its widths scaled down.
TestConfig ==
    [fc |-> <<2>>, input_dim |-> 2, output_dim |-> 1, hidden_dim |-> 2,
     n_layers |-> 1, non_seq_dim |-> Some(1), dropout |-> 50,
     out_actv |-> "None", seed |-> 1]

Differing(c, d) == {f \in DOMAIN c : c[f] # d[f]}

\* The configurations forward is exercised on: the valid ones that differ
\* from the test's in at most two arguments.
ForwardConfigs ==
    {c \in ValidConfigs : Cardinality(Differing(c, TestConfig)) <= 2}

\* The configurations init_hidden is exercised on: it reads n_layers and
\* hidden_dim only.
HiddenConfigs ==
    {c \in ValidConfigs : Differing(c, TestConfig) \subseteq {"n_layers", "hidden_dim"}}

\* An input tensor filled with one value.
MkX(d) == Tensor(d.dt, Fill(d.B, Fill(d.L, Fill(d.D, d.v))))
MkNonSeq(n) == IF n = <<>> THEN <<>>
               ELSE <<Tensor(n[1].dt, Fill(n[1].B, Fill(n[1].W, n[1].v)))>>

\* The auxiliary input of a call on a batch of B: None, or B rows of the
\* configured width (of width 1 when the model was built without one).
NonSeqInputs(c, B, dt) ==
    {<<>>,
     <<[B |-> B, W |-> IF Truthy(c.non_seq_dim) THEN c.non_seq_dim[1] ELSE 1,
        v |-> 1, dt |-> dt]>>}

\* The inputs of a forward call, <<x, non_seq>>: every x of the configured
\* feature width with every auxiliary input, and one x of another width.
ForwardInputs(c) ==
    UNION {{<<[B |-> B, L |-> L, D |-> c.input_dim, v |-> v, dt |-> dt], ns>> :
              ns \in NonSeqInputs(c, B, dt)} :
           B \in Batches, L \in Lens, v \in XVals, dt \in DTypes}
    \cup {<<[B |-> 1, L |-> 1, D |-> c.input_dim + 1, v |-> 1, dt |-> "float64"],
            <<>>>>}

\* Whether a forward call of m draws a random dropout mask.
DropoutActive(m) == m.training /\ m.dropout.p > 0

NoCall ==
    [op |-> "none", args |-> <<>>, prior |-> FALSE, status |-> "", err |-> "",
     at |-> <<"", 0>>, out |-> NoTensor]

InitWith(C) ==
    /\ pc = "new"
    /\ cfg \in C
    /\ model = NoModel
    /\ call = NoCall
    /\ heap = <<>>
    /\ held = <<>>
    /\ written = {}

\* model = LSTM_Net(**cfg), under a library of one of the given behaviours
\* on a zero fan-in.
ConstructWith(Stricts) ==
    /\ pc = "new"
    /\ \E strict \in Stricts :
       \E r \in {Construct(cfg, strict)} :
         /\ pc' = IF r.ok THEN "ready" ELSE "failed"
         /\ model' = r.model
         /\ call' = [NoCall EXCEPT !.op = "construct",
                       !.status = IF r.ok THEN "ok" ELSE "raised"]
    /\ UNCHANGED <<cfg, heap, held, written>>

\* Under any library version.
ConstructStep == ConstructWith(BOOLEAN)

\* Under a library version that rejects a zero fan-in.
ConstructStrict == ConstructWith({TRUE})

\* out = model(x, non_seq)
ForwardCall ==
    /\ pc = "ready"
    /\ \E in \in ForwardInputs(cfg),
          drop \in (IF DropoutActive(model) THEN BOOLEAN ELSE {FALSE}) :
       \E r \in {Forward(model, MkX(in[1]), MkNonSeq(in[2]), drop, heap)} :
         /\ model' = r.model
         /\ call' = [op |-> "forward", args |-> <<in[1], in[2], drop>>,
                     prior |-> model.hidden # <<>>,
                     status |-> r.status, err |-> r.err, at |-> r.at,
                     out |-> r.out]
    /\ UNCHANGED <<pc, cfg, heap, held, written>>

\* model.train() / model.eval(): the mode toggle of the base class.
Train ==
    /\ pc = "ready"
    /\ model' = [model EXCEPT !.training = TRUE]
    /\ call' = [NoCall EXCEPT !.op = "train", !.status = "ok"]
    /\ UNCHANGED <<pc, cfg, heap, held, written>>

Eval ==
    /\ pc = "ready"
    /\ model' = [model EXCEPT !.training = FALSE]
    /\ call' = [NoCall EXCEPT !.op = "eval", !.status = "ok"]
    /\ UNCHANGED <<pc, cfg, heap, held, written>>

\* hidden = model.init_hidden(B): the caller keeps the pair.
InitHiddenCall ==
    /\ pc = "ready"
    /\ Len(held) < MaxHeld
    /\ \E B \in 1..MaxBatch :
       \E r \in {InitHidden(model, B, heap)} :
         /\ heap' = r.heap
         /\ held' = Append(held, [B |-> B, h |-> r.h, c |-> r.c])
         /\ call' = [NoCall EXCEPT !.op = "init_hidden", !.args = <<B>>,
                       !.status = "ok"]
    /\ UNCHANGED <<pc, cfg, model, written>>

\* The caller writes a 1 into the first element of a tensor it holds.
WriteTensor ==
    /\ pc = "ready"
    /\ \E i \in DOMAIN held, slot \in {"h", "c"} :
         /\ <<i, slot>> \notin written
         /\ heap' = [heap EXCEPT ![held[i][slot]].data[1][1][1] = 1]
         /\ written' = written \cup {<<i, slot>>}
         /\ call' = [NoCall EXCEPT !.op = "write", !.args = <<i, slot>>,
                       !.status = "ok"]
    /\ UNCHANGED <<pc, cfg, model, held>>

\* Construction and forward calls on the forward configurations.
Init == InitWith(ForwardConfigs)
Next == ConstructStep \/ ForwardCall \/ Train \/ Eval
Spec == Init /\ [][Next]_vars

\* Construction alone, on any configuration.
InitCtor == InitWith(AnyConfigs)
NextCtor == ConstructStep
SpecCtor == InitCtor /\ [][NextCtor]_vars

\* Construction alone, on any configuration, under the library behaviour
\* that rejects the most configurations.
NextCtorStrict == ConstructStrict
SpecCtorStrict == InitCtor /\ [][NextCtorStrict]_vars

\* init_hidden calls of a caller that keeps and writes the tensors.
InitHiddenSpec == InitWith(HiddenConfigs)
NextHidden == ConstructStep \/ InitHiddenCall \/ WriteTensor
SpecHidden == InitHiddenSpec /\ [][NextHidden]_vars

----------------------------------------------------------------------------
(* Properties.                                                             *)

\* The arguments of the last call, when it was a forward call.
CallX == call.args[1]
CallNonSeq == call.args[2]
CallDrop == call.args[3]

\* A forward call within the input contract: x of the configured feature
\* width, and the auxiliary input, of the configured width, supplied exactly
\* when non_seq_dim was set.
XWellShaped == CallX.D = cfg.input_dim
AuxAsConfigured ==
    IF cfg.non_seq_dim = NoneVal THEN CallNonSeq = <<>>
    ELSE CallNonSeq # <<>> /\ CallNonSeq[1].W = cfg.non_seq_dim[1]

AllWidthsPositive(c) ==
    /\ c.input_dim > 0 /\ c.output_dim > 0 /\ c.hidden_dim > 0
    /\ (c.non_seq_dim # NoneVal => c.non_seq_dim[1] > 0)
    /\ \A i \in DOMAIN c.fc : c.fc[i] > 0

\* C1: for every valid configuration and every forward call within the input
\* contract (x of shape (B, L, input_dim), the auxiliary input supplied
\* exactly when non_seq_dim was set), forward returns, without raising, a
\* tensor of shape (B, output_dim).
C1_ForwardReturnsShape ==
    (call.op = "forward" /\ AllWidthsPositive(cfg) /\ XWellShaped /\ AuxAsConfigured)
        => /\ call.status = "ok"
           /\ <<Size0(call.out), Size1(call.out)>> = <<CallX.B, cfg.output_dim>>

\* The result of the output linear layer in the last forward call: what the
\* call returns on the same model with no terminal activation configured.
RawLinearOutput ==
    Forward([model EXCEPT !.out_actv = "None"], MkX(CallX), MkNonSeq(CallNonSeq),
            CallDrop, heap)

\* C2: a forward call that reaches its last step returns a value: the
\* terminal activation applied to the output linear layer's result when
\* out_actv was passed to the constructor, that result unchanged when
\* out_actv is None.
C2_OutputActivationApplied ==
    (call.op = "forward" /\ RawLinearOutput.status = "ok")
        => /\ call.status = "ok"
           /\ call.out = IF cfg.out_actv = "None" THEN RawLinearOutput.out
                         ELSE ActvApply(cfg.out_actv, RawLinearOutput.out)

\* C3: construction fails, and yields no model, whenever a declared width
\* (input_dim, output_dim, hidden_dim, non_seq_dim when given, an entry of
\* fc) is non-positive.
C3_BadWidthFailsConstruction ==
    ~AllWidthsPositive(cfg) => (pc # "ready" /\ model = NoModel)

\* C4: the recurrent layer's dropout is 0 when n_layers = 1 and the
\* configured p otherwise, and the head's dropout keeps the configured p in
\* both cases.
C4_DropoutProbabilities ==
    pc = "ready"
        => /\ cfg.n_layers = 1 => model.lstm.dropout = 0
           /\ cfg.n_layers > 1 => model.lstm.dropout = cfg.dropout
           /\ model.dropout.p = cfg.dropout

C4_Witness ==
    /\ pc = "ready" /\ cfg.n_layers = 1 /\ cfg.dropout = 50
    /\ model.lstm.dropout = 0 /\ model.dropout.p = 50

\* The fused encoder width of the configuration: hidden_dim plus the
\* auxiliary width, 0 when non_seq_dim is unset.
EncoderWidth ==
    cfg.hidden_dim + (IF cfg.non_seq_dim = NoneVal THEN 0 ELSE cfg.non_seq_dim[1])

\* C5: after construction the widths chain: the first dense layer reads the
\* fused encoder width, dense layer i+1 reads dense layer i's output width,
\* the dense output widths are the entries of fc in order, and the output
\* layer reads the last dense layer's output width (the fused encoder width
\* when fc is empty) and has output_dim outputs.
C5_WidthsChain ==
    pc = "ready"
        => /\ Len(model.fc) = Len(cfg.fc)
           /\ \A i \in DOMAIN model.fc :
                /\ model.fc[i].out_features = cfg.fc[i]
                /\ model.fc[i].in_features =
                     IF i = 1 THEN EncoderWidth ELSE model.fc[i - 1].out_features
           /\ model.out.in_features =
                IF model.fc = <<>> THEN EncoderWidth
                ELSE model.fc[Len(model.fc)].out_features
           /\ model.out.out_features = cfg.output_dim

C5_Witness ==
    /\ pc = "ready" /\ Len(cfg.fc) = 2 /\ cfg.fc[1] # cfg.fc[2]
    /\ cfg.non_seq_dim # NoneVal /\ cfg.non_seq_dim[1] > 0
    /\ model.fc[2].in_features = cfg.fc[1]

HeldStorages(i) == {held[i].h, held[i].c}

\* C6: init_hidden(B) returns two distinct tensors of shape (n_layers, B,
\* hidden_dim), zero-filled; the pairs of different calls share no storage,
\* so a tensor the caller did not write into stays all zero whatever it wrote
\* into the others; and the calls leave the model as constructed.
C6_InitHiddenFreshZeros ==
    pc = "ready"
        => /\ model = Construct(cfg, TRUE).model
           /\ \A i \in DOMAIN held :
                /\ held[i].h # held[i].c
                /\ \A s \in HeldStorages(i) :
                     <<Size0(heap[s]), Size1(heap[s]), Size2(heap[s])>>
                        = <<cfg.n_layers, held[i].B, cfg.hidden_dim>>
                /\ \A j \in DOMAIN held :
                     i # j => HeldStorages(i) \cap HeldStorages(j) = {}
                /\ \A slot \in {"h", "c"} :
                     <<i, slot>> \notin written => IsZero3(heap[held[i][slot]])

C6_Witness ==
    /\ pc = "ready" /\ Len(held) = 2 /\ held[1].B = held[2].B
    /\ written = {<<1, "h">>}
    /\ ~IsZero3(heap[held[1].h])
    /\ IsZero3(heap[held[1].c]) /\ IsZero3(heap[held[2].h]) /\ IsZero3(heap[held[2].c])

\* The model as freshly constructed from the same configuration (hence with
\* the same parameters), switched to inference mode.
FreshModel == [Construct(cfg, TRUE).model EXCEPT !.training = FALSE]

\* C7: in inference mode a forward call gives what the same call gives on a
\* freshly constructed model with the same parameters, whatever forward
\* calls came before it.
C7_ForwardStateless ==
    (call.op = "forward" /\ ~model.training)
        => LET r == Forward(FreshModel, MkX(CallX), MkNonSeq(CallNonSeq), FALSE, <<>>)
           IN  /\ call.status = r.status
               /\ call.err = r.err
               /\ call.at = r.at
               /\ call.out = r.out

C7_Witness ==
    /\ call.op = "forward" /\ ~model.training /\ call.prior
    /\ call.status = "ok" /\ CallX.B = 2 /\ CallX.v = -1

\* C8: on a model built with non_seq_dim = W > 0 and a non-empty fc, a
\* forward call on a well-shaped x without the auxiliary input gives the
\* dense path the encoder's hidden_dim features only and raises a shape
\* error at the first dense layer, which expects hidden_dim + W.
C8_MissingAuxRaisesAtFirstDense ==
    (/\ call.op = "forward" /\ XWellShaped /\ CallNonSeq = <<>>
     /\ cfg.non_seq_dim # NoneVal /\ cfg.non_seq_dim[1] > 0 /\ cfg.fc # <<>>)
        => /\ call.status = "raised" /\ call.err = "shape"
           /\ call.at = <<"fc", 1>>
           /\ call.out = NoTensor
           /\ Size2(model.hidden[1]) = cfg.hidden_dim
           /\ model.fc[1].in_features = cfg.hidden_dim + cfg.non_seq_dim[1]

C8_Witness ==
    /\ call.op = "forward" /\ XWellShaped /\ CallNonSeq = <<>>
    /\ cfg.non_seq_dim = Some(1) /\ Len(cfg.fc) = 2
    /\ call.status = "raised" /\ call.at = <<"fc", 1>>

\* C9: a forward call, returning or raising, changes no attribute of the
\* model but hidden: configuration, sub-modules, mode and every parameter
\* stay as they were.
C9_ForwardWritesHiddenOnly ==
    [][call'.op = "forward" => model' = [model EXCEPT !.hidden = model'.hidden]]_vars

C9_Witness ==
    /\ call.op = "forward" /\ call.status = "raised" /\ call.at[1] = "fc"
    /\ ~call.prior /\ model.hidden # <<>>
    /\ [model EXCEPT !.hidden = <<>>] = Construct(cfg, TRUE).model

\* The parameters the model is documented to own: the recurrent layer's,
\* every dense layer's and the output layer's.
OwnedParameters ==
    ParamsOfAttr(model, "lstm") \cup ParamsOfAttr(model, "fc")
        \cup ParamsOfAttr(model, "out")

\* C10: after construction parameters() enumerates the weight and bias of
\* every dense layer built from fc, with the recurrent layer's and the
\* output layer's parameters.
C10_ParametersIncludeDense ==
    pc = "ready" => OwnedParameters \subseteq Parameters(model)

=============================================================================
